---- MODULE Spec2Model ----
(***************************************************************************)
(* Model of bitcalm/actions.py: ActionPool, Action, OneTimeAction,         *)
(* StepAction and ActionSeed (Python 2 semantics: == and min() on Action   *)
(* objects go through Action.__cmp__, i.e. they compare the time fields).  *)
(* Times are whole seconds on an integer clock.                            *)
(***************************************************************************)
EXTENDS Integers, Sequences, FiniteSets, TLC

VARIABLES now, actions, pool, time, lastexectime, custom, followers, built, last, nops

vars == <<now, actions, pool, time, lastexectime, custom, followers, built, last, nops>>

----------------------------------------------------------------------------
(* Bounds of the model *)

\* the clock never runs past MaxNow
MaxNow == 2
\* longest duration of one run of the underlying work
MaxDur == 1
\* longest argument list of extend
MaxLen == 2
\* number of pool operations in one behaviour of SpecPool
MaxPoolOps == 2
\* number of insertions and invocations in one behaviour of SpecCall
MaxCallOps == 2
\* number of insertions and one-time invocations in one behaviour of SpecChain
MaxChainOps == 3
\* number of insertions and one-time invocations in one behaviour of SpecRetry
MaxRetryOps == 5
\* number of insertions and queries in one behaviour of SpecQuery
MaxQueryOps == 3
\* number of insertions, queries and invocations in one behaviour of SpecDriver
MaxDriverOps == 4

----------------------------------------------------------------------------
(* The objects *)

Pools == {"P", "Q"}

\* A, B: Action; O: OneTimeAction; T: StepAction; G: the Action that the
\* ActionSeed S grows.
StaticIds == {"A", "B", "O", "T"}
ActionIds == StaticIds \cup {"G"}
SeedIds == {"S"}

\* the value of an unset time / lastexectime
None == -1
\* the value of an unset pool back-reference and of "no action"
NoPool == "nopool"
NoAction == "none"

\* the signals the underlying work returns
Success == 1
Failure == 0
Partial == -1
Signals == {Success, Failure, Partial}

\* class of each object
cls(a) == CASE a = "O" -> "OneTimeAction"
            [] a = "T" -> "StepAction"
            [] OTHER   -> "Action"

\* Action._func: the underlying callable. A and B wrap the same callable,
\* and the grown follower G wraps the callable of its trigger O.
func(a) == CASE a \in {"A", "B"} -> "f"
             [] a \in {"O", "G"} -> "g"
             [] OTHER            -> "h"

\* Action.tag (kwargs 'tag', default None)
NoTag == "notag"
tag(a) == IF a = "A" THEN "ta" ELSE NoTag

\* the nexttime argument when it is a number of seconds
periodArg(a) == CASE a = "A" -> 1
                  [] a = "O" -> 2
                  [] a = "T" -> 1
                  [] a = "G" -> 1
                  [] OTHER   -> 0

\* kwargs 'start' (None when absent)
startArg(a) == IF a = "B" THEN 1 ELSE None

\* StepAction.step (kwargs 'step')
step(a) == 2

\* the period argument of Action.delay
DelayPeriod == 600

\* ActionSeed.grow: the instance the seed constructs
GrownOf(s) == "G"

\* OneTimeAction._cancel: an action, a function or a tag
Cancel(a) == IF a = "O"
             THEN << [kind |-> "action", val |-> "A"],
                     [kind |-> "func",   val |-> "h"],
                     [kind |-> "tag",    val |-> "tz"] >>
             ELSE << >>

\* OneTimeAction._followers as given to the constructor
InitFollowers(a) == IF a = "O" THEN << "S", "B" >> ELSE << >>

\* what a caller-supplied nexttime function may return at clock value t
CustomReturns(t) == {None, t + 3}

----------------------------------------------------------------------------
(* Helpers *)

Min(S) == CHOOSE x \in S : \A y \in S : x <= y

RemoveAt(seq, i) == [j \in 1..(Len(seq) - 1) |-> IF j < i THEN seq[j] ELSE seq[j + 1]]

Range(seq) == {seq[i] : i \in DOMAIN seq}

\* the lists of at most n distinct elements of S
SeqsUpTo(S, n) ==
    {q \in UNION {[1..k -> S] : k \in 0..n} : \A i, j \in DOMAIN q : q[i] = q[j] => i = j}

\* Action.__init__ lines 65-70: _period is 0 for a callable nexttime
period(a, cu) == IF cu[a] THEN 0 ELSE periodArg(a)

\* _default_next anchored to the clock instead of lastexectime
DefaultNextFromNow(a, let, cu, t) == t + period(a, cu)

\* _default_next without the "or datetime.utcnow()" fallback
DefaultNextNoFallback(a, let, cu, t) ==
    IF let[a] # None THEN let[a] + period(a, cu) ELSE None

\* Action._default_next
\* (lastexectime or utcnow()) + timedelta(seconds=_period)
DefaultNext(a, let, cu, t) ==
    (IF let[a] # None THEN let[a] ELSE t) + period(a, cu)

\* Action.next: self.time = self._next(); cr is what a custom function returns
NextTime(a, let, cu, t, cr) ==
    IF cu[a] THEN cr ELSE DefaultNext(a, let, cu, t)

\* Action.delay
Delay(t) == t + DelayPeriod

\* OneTimeAction.__call__ lines 144-145 with the delay() of Action.__call__
OneTimeFailureDelay(a, let, cu, t, cr) == Delay(t)

\* OneTimeAction.__call__ lines 144-145: the work failed, self.next()
OneTimeFailure(a, let, cu, t, cr) == NextTime(a, let, cu, t, cr)

\* Action.__init__ lines 71-75: the first time of a new action
InitTime(a, cu, t, cr) ==
    IF startArg(a) = None
    THEN NextTime(a, [x \in ActionIds |-> None], cu, t, cr)
    ELSE t + startArg(a)

----------------------------------------------------------------------------
(* ActionPool *)

\* ActionPool._funcs
Funcs(seq) == {func(seq[i]) : i \in DOMAIN seq}

\* Action.__cmp__ as used by ==: cmp(self.time, other.time) raises TypeError
\* for a datetime against None
CmpRaises(x, y, tm) == (tm[x] = None) # (tm[y] = None)
CmpEqual(x, y, tm) == tm[x] = tm[y]

\* The state a pool operation works on: the lists, the back-references and
\* the exception raised, if any.
St(acts, pl) == [acts |-> acts, pl |-> pl, exc |-> "none", ret |-> 0]

\* add without the _funcs test
AddStNoTest(st, p, a) ==
    [st EXCEPT !.acts[p] = Append(@, a), !.pl[a] = p, !.ret = 1]

\* ActionPool.add
AddSt(st, p, a) ==
    IF func(a) \in Funcs(st.acts[p])
    THEN [st EXCEPT !.ret = 0]
    ELSE [st EXCEPT !.acts[p] = Append(@, a), !.pl[a] = p, !.ret = 1]

\* ActionPool.extend
ExtendFilter(seq, present) == SelectSeq(seq, LAMBDA a : func(a) \notin present)

ExtendSt(st, p, seq) ==
    LET new == ExtendFilter(seq, Funcs(st.acts[p]))
    IN [st EXCEPT !.acts[p] = @ \o new,
                  !.pl = [a \in ActionIds |-> IF a \in Range(new) THEN p ELSE @[a]],
                  !.ret = Len(new)]

\* list.remove(action): the first element that is the action or compares
\* equal to it is deleted
RemoveHit(y, x, tm) == y = x \/ CmpEqual(y, x, tm)

\* ActionPool.remove
RemoveSt(st, p, x, tm) ==
    LET seq == st.acts[p]
        ev == {i \in DOMAIN seq : RemoveHit(seq[i], x, tm) \/ CmpRaises(seq[i], x, tm)}
    IN IF ev = {}
       THEN [st EXCEPT !.exc = "ValueError"]
       ELSE LET i == Min(ev)
            IN IF RemoveHit(seq[i], x, tm)
               THEN [st EXCEPT !.acts[p] = RemoveAt(seq, i), !.pl[x] = NoPool]
               ELSE [st EXCEPT !.exc = "TypeError"]

\* ActionPool.clear
ClearSt(st, p) ==
    [st EXCEPT !.acts[p] = << >>,
               !.pl = [a \in ActionIds |-> IF a \in Range(st.acts[p]) THEN NoPool ELSE @[a]]]

\* ActionPool.get
GetIn(seq, item) ==
    LET hits == {i \in DOMAIN seq :
                    IF item.kind = "func" THEN func(seq[i]) = item.val
                                          ELSE tag(seq[i]) = item.val}
    IN IF hits = {} THEN NoAction ELSE seq[Min(hits)]

\* ActionPool.next: the members with a time, and min() over them
Timed(seq, tm) == SelectSeq(seq, LAMBDA a : tm[a] # None)

MinOf(seq, tm) ==
    LET m == Min({tm[seq[i]] : i \in DOMAIN seq})
    IN seq[Min({i \in DOMAIN seq : tm[seq[i]] = m})]

NextOf(seq, tm) ==
    IF seq # << >>
    THEN IF Timed(seq, tm) = << >>
         THEN [act |-> NoAction, exc |-> "ValueError"]
         ELSE [act |-> MinOf(Timed(seq, tm), tm), exc |-> "none"]
    ELSE [act |-> NoAction, exc |-> "none"]

----------------------------------------------------------------------------
(* The state after construction of the four static actions at clock 0 *)

NoLast == [op |-> "init", ret |-> 0, act |-> NoAction, exc |-> "none", sig |-> 0, dur |-> 0]

Init ==
    /\ now = 0
    /\ actions = [p \in Pools |-> << >>]
    /\ pool = [a \in ActionIds |-> NoPool]
    /\ lastexectime = [a \in ActionIds |-> None]
    \* A and G are given a period and B a function; of O and T one is given
    \* a period and the other a function
    /\ custom \in {cu \in [ActionIds -> BOOLEAN] :
                      /\ cu["B"] /\ ~cu["A"] /\ ~cu["G"]
                      /\ cu["O"] # cu["T"]}
    /\ \E crs \in [StaticIds -> CustomReturns(0)] :
          time = [a \in ActionIds |->
                     IF a \in StaticIds THEN InitTime(a, custom, 0, crs[a]) ELSE None]
    /\ followers = [a \in ActionIds |-> InitFollowers(a)]
    /\ built = StaticIds
    /\ last = NoLast
    /\ nops = 0

----------------------------------------------------------------------------
(* Pool operations called by the driver *)

\* what the driver sees of the last call: the operation, the value it returned,
\* the action it was given (add, remove, an invocation) or returned (next),
\* the exception it raised, the signal of the work it ran and the time that
\* work took
Record(op, ret, act, exc, sig, dur) ==
    [op |-> op, ret |-> ret, act |-> act, exc |-> exc, sig |-> sig, dur |-> dur]

\* pool.add(a)
Add(p, a) ==
    /\ LET st == AddSt(St(actions, pool), p, a)
       IN /\ actions' = st.acts
          /\ pool' = st.pl
          /\ last' = Record("add", st.ret, a, "none", 0, 0)
    /\ UNCHANGED <<now, time, lastexectime, custom, followers, built>>

\* pool.extend(seq)
Extend(p, seq) ==
    /\ LET st == ExtendSt(St(actions, pool), p, seq)
       IN /\ actions' = st.acts
          /\ pool' = st.pl
          /\ last' = Record("extend", st.ret, NoAction, "none", 0, 0)
    /\ UNCHANGED <<now, time, lastexectime, custom, followers, built>>

\* pool.remove(a)
Remove(p, a) ==
    /\ LET st == RemoveSt(St(actions, pool), p, a, time)
       IN /\ actions' = st.acts
          /\ pool' = st.pl
          /\ last' = Record("remove", 0, a, st.exc, 0, 0)
    /\ UNCHANGED <<now, time, lastexectime, custom, followers, built>>

\* pool.clear()
Clear(p) ==
    /\ LET st == ClearSt(St(actions, pool), p)
       IN /\ actions' = st.acts
          /\ pool' = st.pl
          /\ last' = Record("clear", 0, NoAction, "none", 0, 0)
    /\ UNCHANGED <<now, time, lastexectime, custom, followers, built>>

\* pool.next()
PoolNext(p) ==
    /\ LET r == NextOf(actions[p], time)
       IN last' = Record("next", 0, r.act, r.exc, 0, 0)
    /\ UNCHANGED <<now, actions, pool, time, lastexectime, custom, followers, built>>

\* the driver waits
Tick ==
    /\ now < MaxNow
    /\ now' = now + 1
    /\ UNCHANGED <<actions, pool, time, lastexectime, custom, followers, built, last>>

----------------------------------------------------------------------------
(* Invocations *)

\* what the nexttime function of a may return at clock value t (nothing is
\* asked of it when a has a period)
CustomReturnsOf(a, t) == IF custom[a] THEN CustomReturns(t) ELSE {None}

\* Action.__call__ with an action that gives up its place in the pool when
\* its work fails
CallActionLeaves(a, sig, dur, cr) ==
    /\ cls(a) = "Action"
    /\ now + dur <= MaxNow
    /\ now' = now + dur
    /\ lastexectime' = [lastexectime EXCEPT ![a] = now]
    /\ time' = [time EXCEPT ![a] =
                   IF sig # Failure
                   THEN NextTime(a, lastexectime', custom, now', cr)
                   ELSE Delay(now')]
    /\ IF sig = Failure
       THEN /\ actions' = [p \in Pools |-> SelectSeq(actions[p], LAMBDA x : x # a)]
            /\ pool' = [pool EXCEPT ![a] = NoPool]
       ELSE UNCHANGED <<actions, pool>>
    /\ last' = Record("Action.call", 0, a, "none", sig, dur)
    /\ UNCHANGED <<custom, followers, built>>

\* Action.__call__
CallAction(a, sig, dur, cr) ==
    /\ cls(a) = "Action"
    /\ now + dur <= MaxNow
    /\ now' = now + dur
    /\ lastexectime' = [lastexectime EXCEPT ![a] = now]
    /\ time' = [time EXCEPT ![a] =
                   IF sig # Failure
                   THEN NextTime(a, lastexectime', custom, now', cr)
                   ELSE Delay(now')]
    /\ last' = Record("Action.call", 0, a, "none", sig, dur)
    /\ UNCHANGED <<actions, pool, custom, followers, built>>

\* StepAction.__call__ lines 157-165 with the Partial branch left out
StepTimeNoPartial(a, sig, let, cu, t, cr) ==
    IF sig = Success THEN NextTime(a, let, cu, t, cr) ELSE Delay(t)

\* StepAction.__call__ lines 157-165: the new time by the result of the work
StepTime(a, sig, let, cu, t, cr) ==
    CASE sig = Partial -> t + step(a)
      [] sig = Success -> NextTime(a, let, cu, t, cr)
      [] OTHER         -> Delay(t)

\* line 156 moved before the work, as in Action.__call__
StepExecTimeBefore(start, end) == start

\* StepAction.__call__ lines 155-156: lastexectime is the clock read when the
\* work, which ran from start to end, has returned
StepExecTime(start, end) == end

\* StepAction.__call__
CallStepAction(a, sig, dur, cr) ==
    /\ cls(a) = "StepAction"
    /\ now + dur <= MaxNow
    /\ now' = now + dur
    /\ lastexectime' = [lastexectime EXCEPT ![a] = StepExecTime(now, now')]
    /\ time' = [time EXCEPT ![a] = StepTime(a, sig, lastexectime', custom, now', cr)]
    /\ last' = Record("StepAction.call", 0, a, "none", sig, dur)
    /\ UNCHANGED <<actions, pool, custom, followers, built>>

\* OneTimeAction.__call__ lines 127-132: the cancel loop from entry i on;
\* it stops at the first exception
RECURSIVE CancelFrom(_, _, _, _, _)
CancelFrom(st, p, items, i, tm) ==
    IF i > Len(items) \/ st.exc # "none"
    THEN st
    ELSE LET item == IF items[i].kind = "action"
                     THEN items[i].val
                     ELSE GetIn(st.acts[p], items[i])
         IN IF item = NoAction
            THEN CancelFrom(st, p, items, i + 1, tm)
            ELSE CancelFrom(RemoveSt(st, p, item, tm), p, items, i + 1, tm)

\* lines 141-142 left out: the follower keeps the time t1 it had
FollowerTimeKept(x, let, cu, t, cr, t1) == t1

\* OneTimeAction.__call__ lines 141-142: follower.next()
FollowerTime(x, let, cu, t, cr, t1) == NextTime(x, let, cu, t, cr)

\* lines 135-139 with the seeds left as they are
GrowKeepsSeeds(fs) == fs

\* OneTimeAction.__call__ lines 135-139: map(grow, self._followers)
Grow(fs) == [i \in DOMAIN fs |-> IF fs[i] \in SeedIds THEN GrownOf(fs[i]) ELSE fs[i]]

\* the success branch of a one-time action in no pool, with the loop of
\* lines 141-142 run outside "if self.pool" on the followers that are actions
OneTimeDetachedAdvance(a, sig, dur) ==
    /\ last' = Record("OneTimeAction.call", 0, a, "none", sig, dur)
    /\ time' = [x \in ActionIds |->
                   IF x \in Range(followers[a]) \cap built
                   THEN NextTime(x, lastexectime', custom, now', None)
                   ELSE time[x]]
    /\ UNCHANGED <<actions, pool, followers, built>>

\* OneTimeAction.__call__ lines 122-123, 143: the work succeeded and
\* self.pool is None
OneTimeDetached(a, sig, dur) ==
    /\ last' = Record("OneTimeAction.call", 0, a, "none", sig, dur)
    /\ UNCHANGED <<actions, pool, time, followers, built>>

\* OneTimeAction.__call__
CallOneTimeAction(a, sig, dur) ==
    /\ cls(a) = "OneTimeAction"
    /\ now + dur <= MaxNow
    /\ now' = now + dur
    /\ lastexectime' = [lastexectime EXCEPT ![a] = now]
    /\ IF sig # Failure
       THEN IF pool[a] # NoPool
            THEN LET p == pool[a]
                     s1 == RemoveSt(St(actions, pool), p, a, time)
                     s2 == CancelFrom(s1, p, Cancel(a), 1, time)
                 IN IF s2.exc # "none"
                    THEN /\ actions' = s2.acts
                         /\ pool' = s2.pl
                         /\ last' = Record("OneTimeAction.call", 0, a, s2.exc, sig, dur)
                         /\ UNCHANGED <<time, followers, built>>
                    ELSE LET grown == Grow(followers[a])
                             fresh == Range(grown) \ built
                             s3 == IF followers[a] # << >>
                                   THEN ExtendSt(s2, p, grown)
                                   ELSE s2
                         IN /\ actions' = s3.acts
                            /\ pool' = s3.pl
                            /\ followers' = [followers EXCEPT ![a] = grown]
                            /\ built' = built \cup fresh
                            /\ \E c1 \in [Range(grown) -> CustomReturns(now')] :
                               \E c2 \in [Range(grown) -> CustomReturns(now')] :
                                  LET t1 == [x \in ActionIds |->
                                                IF x \in fresh
                                                THEN InitTime(x, custom, now', c1[x])
                                                ELSE time[x]]
                                  IN time' = [x \in ActionIds |->
                                                 IF x \in Range(grown)
                                                 THEN FollowerTime(x, lastexectime', custom,
                                                                   now', c2[x], t1[x])
                                                 ELSE t1[x]]
                            /\ last' = Record("OneTimeAction.call", 0, a, "none", sig, dur)
            ELSE OneTimeDetached(a, sig, dur)
       ELSE /\ \E cr \in CustomReturnsOf(a, now') :
                time' = [time EXCEPT ![a] = OneTimeFailure(a, lastexectime', custom, now', cr)]
            /\ last' = Record("OneTimeAction.call", 0, a, "none", sig, dur)
            /\ UNCHANGED <<actions, pool, followers, built>>
    /\ UNCHANGED custom

\* bitcalm.utils.total_seconds: the length of a time interval in seconds;
\* the clock of the model counts whole seconds
total_seconds(d) == d

\* Action.time_left without the test of line 107
TimeLeftUnclamped(a, tm, t) ==
    IF tm[a] = None
    THEN [val |-> 0, exc |-> "TypeError"]
    ELSE [val |-> total_seconds(tm[a] - t), exc |-> "none"]

\* Action.time_left: comparing a time that is None with the clock raises
\* TypeError
TimeLeftOf(a, tm, t) ==
    IF tm[a] = None
    THEN [val |-> 0, exc |-> "TypeError"]
    ELSE IF tm[a] > t
         THEN [val |-> total_seconds(tm[a] - t), exc |-> "none"]
         ELSE [val |-> 0, exc |-> "none"]

\* a.time_left()
TimeLeft(a) ==
    /\ a \in built
    /\ LET r == TimeLeftOf(a, time, now)
       IN last' = Record("time_left", r.val, a, r.exc, 0, 0)
    /\ UNCHANGED <<now, actions, pool, time, lastexectime, custom, followers, built>>

----------------------------------------------------------------------------

\* one more operation of a behaviour that may hold at most n
Count(n) == nops < n /\ nops' = nops + 1

\* the pool operations, on the actions as constructed
NextPool ==
    \/ \E p \in Pools, a \in built : Count(MaxPoolOps) /\ Add(p, a)
    \/ \E p \in Pools, seq \in SeqsUpTo(built, MaxLen) : Count(MaxPoolOps) /\ Extend(p, seq)
    \/ \E p \in Pools, a \in built : Count(MaxPoolOps) /\ Remove(p, a)
    \/ \E p \in Pools : Count(MaxPoolOps) /\ Clear(p)
    \/ \E p \in Pools : Count(MaxPoolOps) /\ PoolNext(p)

SpecPool == Init /\ [][NextPool]_vars

\* insertions and invocations, with the clock running
NextCall ==
    \/ Tick /\ UNCHANGED nops
    \/ \E p \in Pools, a \in built : Count(MaxCallOps) /\ Add(p, a)
    \/ \E a \in built, sig \in Signals, dur \in 0..MaxDur :
          \E cr \in CustomReturnsOf(a, now + dur) :
             Count(MaxCallOps) /\ CallAction(a, sig, dur, cr)
    \/ \E a \in built, sig \in Signals, dur \in 0..MaxDur :
          \E cr \in CustomReturnsOf(a, now + dur) :
             Count(MaxCallOps) /\ CallStepAction(a, sig, dur, cr)
    \/ \E a \in built, sig \in Signals, dur \in 0..MaxDur :
          Count(MaxCallOps) /\ CallOneTimeAction(a, sig, dur)

SpecCall == Init /\ [][NextCall]_vars

\* insertions and invocations of one-time actions: cancelling and chaining
NextChain ==
    \/ Tick /\ UNCHANGED nops
    \/ \E p \in Pools, a \in built : Count(MaxChainOps) /\ Add(p, a)
    \/ \E a \in built, sig \in Signals, dur \in 0..MaxDur :
          Count(MaxChainOps) /\ CallOneTimeAction(a, sig, dur)

SpecChain == Init /\ [][NextChain]_vars

\* the same operations in longer behaviours: a one-time action that failed
\* is run again
NextRetry ==
    \/ Tick /\ UNCHANGED nops
    \/ \E p \in Pools, a \in built : Count(MaxRetryOps) /\ Add(p, a)
    \/ \E a \in built, sig \in Signals, dur \in 0..MaxDur :
          Count(MaxRetryOps) /\ CallOneTimeAction(a, sig, dur)

SpecRetry == Init /\ [][NextRetry]_vars

\* a driver asking its pools for the next action and for the time left
NextQuery ==
    \/ Tick /\ UNCHANGED nops
    \/ \E p \in Pools, a \in built : Count(MaxQueryOps) /\ Add(p, a)
    \/ \E p \in Pools : Count(MaxQueryOps) /\ PoolNext(p)
    \/ \E a \in built : Count(MaxQueryOps) /\ TimeLeft(a)

SpecQuery == Init /\ [][NextQuery]_vars

\* the driver pattern: the only action invoked is the one that the call of
\* next() just before returned
Driven(a) == last.op = "next" /\ last.act = a

NextDriver ==
    \/ Tick /\ UNCHANGED nops
    \/ \E p \in Pools, a \in built : Count(MaxDriverOps) /\ Add(p, a)
    \/ \E p \in Pools : Count(MaxDriverOps) /\ PoolNext(p)
    \/ \E a \in built, sig \in Signals, dur \in 0..MaxDur :
          \E cr \in CustomReturnsOf(a, now + dur) :
             Count(MaxDriverOps) /\ Driven(a) /\ CallAction(a, sig, dur, cr)
    \/ \E a \in built, sig \in Signals, dur \in 0..MaxDur :
          \E cr \in CustomReturnsOf(a, now + dur) :
             Count(MaxDriverOps) /\ Driven(a) /\ CallStepAction(a, sig, dur, cr)
    \/ \E a \in built, sig \in Signals, dur \in 0..MaxDur :
          Count(MaxDriverOps) /\ Driven(a) /\ CallOneTimeAction(a, sig, dur)

SpecDriver == Init /\ [][NextDriver]_vars

----------------------------------------------------------------------------
(* The pool: C1 - C7, under SpecPool *)

Members(p) == Range(actions[p])

\* the list without every occurrence of a
Without(seq, a) == SelectSeq(seq, LAMBDA x : x # a)

\* the elements of seq whose workIdentity is neither in present nor carried
\* by an earlier element of seq
RECURSIVE FirstSeen(_, _)
FirstSeen(seq, present) ==
    IF seq = << >>
    THEN << >>
    ELSE IF func(Head(seq)) \in present
         THEN FirstSeen(Tail(seq), present)
         ELSE << Head(seq) >> \o FirstSeen(Tail(seq), present \cup {func(Head(seq))})

\* C1: no two members of the same pool have the same workIdentity.
C1_UniqueIdentity ==
    \A p \in Pools : \A i, j \in DOMAIN actions[p] :
        func(actions[p][i]) = func(actions[p][j]) => i = j

\* C2: extend(actions) inserts exactly the input actions whose workIdentity
\* is held neither by a member nor by an earlier action of the input, sets the
\* back-reference of each inserted action, leaves the members it found
\* untouched and returns the number of actions inserted.
C2_ExtendFirstSeen ==
    [][\A p \in Pools, seq \in SeqsUpTo(ActionIds, MaxLen) :
          Extend(p, seq) =>
             LET ins == FirstSeen(seq, {func(m) : m \in Members(p)})
             IN /\ actions'[p] = actions[p] \o ins
                /\ \A q \in Pools \ {p} : actions'[q] = actions[q]
                /\ \A a \in ActionIds :
                      pool'[a] = IF a \in Range(ins) THEN p ELSE pool[a]
                /\ last'.ret = Len(ins)]_vars

\* C3: add(action) returns false and leaves the members and the action's
\* back-reference unchanged when a member already has the action's
\* workIdentity; otherwise it returns true, the pool grows by exactly that
\* action, and the action's back-reference is the pool.
C3_Add ==
    [][\A p \in Pools, a \in {last'.act} \cap ActionIds :
          Add(p, a) =>
             IF \E m \in Members(p) : func(m) = func(a)
             THEN /\ last'.ret = 0
                  /\ actions' = actions
                  /\ pool' = pool
             ELSE /\ last'.ret = 1
                  /\ actions'[p] = Append(actions[p], a)
                  /\ \A q \in Pools \ {p} : actions'[q] = actions[q]
                  /\ pool'[a] = p
                  /\ \A b \in ActionIds \ {a} : pool'[b] = pool[b]]_vars

\* the add of B was refused by the pool that holds A, of the same workIdentity
C3_Witness ==
    /\ last.op = "add"
    /\ last.ret = 0
    /\ last.act = "B"
    /\ pool["B"] = NoPool
    /\ \E p \in Pools : actions[p] = << "A" >> /\ pool["A"] = p

\* C4: an action is a member of pool P if and only if its back-reference is P.
C4_MemberIffBackRef ==
    \A a \in built : \A p \in Pools : (a \in Members(p)) <=> (pool[a] = p)

\* C5: remove(action) on a pool that contains the action removes exactly that
\* action and clears its back-reference; every other member stays, with its
\* back-reference unchanged.
C5_RemoveMember ==
    [][\A p \in Pools, a \in ActionIds :
          (Remove(p, a) /\ a \in Members(p)) =>
             /\ actions'[p] = Without(actions[p], a)
             /\ \A q \in Pools \ {p} : actions'[q] = actions[q]
             /\ pool'[a] = NoPool
             /\ \A b \in ActionIds \ {a} : pool'[b] = pool[b]]_vars

\* C6: remove(action) for an action that is not a member leaves the members
\* and the back-references unchanged, and ends the same way for every pool
\* content (the way it ends on an empty pool: the missing-element error).
C6_RemoveAbsent ==
    [][\A p \in Pools, a \in ActionIds :
          (Remove(p, a) /\ a \notin Members(p)) =>
             /\ actions' = actions
             /\ pool' = pool
             /\ last'.exc = "ValueError"]_vars

\* C7: next() returns a member whose time is the minimum among the members
\* with a time, and returns none, without an error, when there is no such
\* member.
C7_Next ==
    [][\A p \in Pools :
          PoolNext(p) =>
             LET timed == {m \in Members(p) : time[m] # None}
             IN /\ last'.exc = "none"
                /\ IF timed = {}
                   THEN last'.act = NoAction
                   ELSE /\ last'.act \in timed
                        /\ \A m \in timed : time[last'.act] <= time[m]]_vars

----------------------------------------------------------------------------
(* Rescheduling: C8 - C10, under SpecCall *)

CallOps == {"Action.call", "OneTimeAction.call", "StepAction.call"}

\* C8, as claimed: the time of every action of every variant is defined after
\* construction and after every invocation, with a period or with a custom
\* next-time function.
C8_TimeDefined == \A a \in built : time[a] # None

\* C8, amended: the time of every action that was given a period is defined
\* after construction and after every invocation, whatever the work returned.
C8_PeriodTimeDefined == \A a \in built : ~custom[a] => time[a] # None

\* an action with a period has been invoked
C8_Witness ==
    /\ last.op \in CallOps
    /\ last.act \in built
    /\ ~custom[last.act]
    /\ lastexectime[last.act] # None
    /\ time[last.act] # None

C10_FailurePolicy ==
    [][\A a \in {last'.act} \cap ActionIds, dur \in {now' - now} :
          /\ \A cr \in CustomReturnsOf(a, now + dur) :
                (CallAction(a, Failure, dur, cr) \/ CallStepAction(a, Failure, dur, cr))
                   => time'[a] = now' + 600
          /\ CallOneTimeAction(a, Failure, dur) =>
                /\ IF custom[a]
                   THEN time'[a] \in CustomReturns(now')
                   ELSE time'[a] = lastexectime'[a] + periodArg(a)
                /\ lastexectime'[a] = now
                /\ \A b \in ActionIds \ {a} : time'[b] = time[b]
                /\ actions' = actions
                /\ pool' = pool
                /\ followers' = followers
                /\ built' = built]_vars

\* the work of the one-time action O failed while O was a member of a pool
C10_Witness ==
    /\ last.op = "OneTimeAction.call"
    /\ last.sig = Failure
    /\ \E p \in Pools : pool["O"] = p /\ "O" \in Members(p)

----------------------------------------------------------------------------
(* One-time actions: C11 under SpecRetry, C12 - C14 under SpecChain *)

\* a successful invocation of the one-time action a: the work returned
\* Success and __call__ returned
Succeeded(a, dur) ==
    CallOneTimeAction(a, Success, dur) /\ last'.exc = "none"

\* the members of the pool p that an entry of the cancel list of a names:
\* by reference, by the function they run or by their tag
Targets(a, p) ==
    {m \in Members(p) \ {a} :
        \E i \in DOMAIN Cancel(a) :
           \/ Cancel(a)[i].kind = "action" /\ m = Cancel(a)[i].val
           \/ Cancel(a)[i].kind = "func" /\ func(m) = Cancel(a)[i].val
           \/ Cancel(a)[i].kind = "tag" /\ tag(m) = Cancel(a)[i].val}

\* C11: after a successful invocation of a one-time action that is in the
\* pool P, the action is no member of P and refers to no pool, no member of
\* P that the cancel list names is a member of P any more, and every other
\* member of P is still a member: entries that name no member remove nothing.
C11_CancelTargets ==
    [][\A a \in {last'.act} \cap ActionIds, dur \in {now' - now} :
          (Succeeded(a, dur) /\ pool[a] # NoPool) =>
             LET p == pool[a]
             IN /\ a \notin Range(actions'[p])
                /\ pool'[a] = NoPool
                /\ \A m \in Targets(a, p) : m \notin Range(actions'[p])
                /\ \A m \in Members(p) \ ({a} \cup Targets(a, p)) :
                      m \in Range(actions'[p])]_vars

\* the seeds among the followers of a
SeedsOf(a) == Range(followers[a]) \cap SeedIds

C14_DetachedFrame ==
    [][\A a \in {last'.act} \cap ActionIds, dur \in {now' - now} :
          (CallOneTimeAction(a, Success, dur) /\ pool[a] = NoPool) =>
             /\ lastexectime' = [lastexectime EXCEPT ![a] = now]
             /\ actions' = actions /\ pool' = pool
             /\ followers' = followers /\ built' = built
             /\ time' = time /\ custom' = custom
             /\ last'.exc = "none"]_vars

\* O succeeded while it was in no pool, at a clock at which its untouched
\* time is not what its rule would give; its cancel target A is still a
\* member of P and the seed S is still a seed
C14_Witness ==
    /\ last.op = "OneTimeAction.call" /\ last.act = "O"
    /\ last.sig = Success /\ last.exc = "none"
    /\ pool["O"] = NoPool /\ \A p \in Pools : "O" \notin Members(p)
    /\ followers["O"] = <<"S", "B">> /\ "G" \notin built
    /\ "A" \in Members("P") /\ pool["A"] = "P"
    /\ time["B"] = 1
    /\ lastexectime["O"] > 0 /\ ~custom["O"] /\ time["O"] = periodArg("O")

----------------------------------------------------------------------------
(* Step actions and the order of the bookkeeping: C15, C17, C18, under
   SpecCall *)

\* C15: when the work of a step action returns Partial, its time becomes the
\* clock of the invocation, taken when the work has returned, plus its step,
\* whatever its period or its own function, and it stays where it is; on
\* Success the time follows its rule for the next time, and on every other
\* signal it is the clock plus the fixed delay.
C15_StepPolicy ==
    [][\A a \in {last'.act} \cap ActionIds, sig \in {last'.sig}, dur \in {now' - now} :
          \A cr \in CustomReturnsOf(a, now') :
             CallStepAction(a, sig, dur, cr) =>
                /\ actions' = actions /\ pool' = pool
                /\ sig = Partial => time'[a] = now' + step(a)
                /\ sig = Success =>
                      IF custom[a]
                      THEN time'[a] = cr
                      ELSE time'[a] = lastexectime'[a] + periodArg(a)
                /\ sig \notin {Partial, Success} => time'[a] = now' + DelayPeriod]_vars

\* the work of the step action T, a member of a pool, returned Partial after
\* the clock had moved on: T is due one step later, which neither its period
\* nor its own function would give
C15_Witness ==
    /\ last.op = "StepAction.call" /\ last.act = "T" /\ last.sig = Partial
    /\ now > 0
    /\ time["T"] = now + step("T")
    /\ time["T"] # now + periodArg("T") /\ time["T"] \notin CustomReturns(now)
    /\ \E p \in Pools : "T" \in Members(p) /\ pool["T"] = p

\* C17: an action and a one-time action set lastexectime to the clock at which
\* the work starts, a step action to the clock at which the work has
\* returned; so after Success an action with a period is due one period
\* after the start of the work, and a step action with a period one period
\* after its end.
C17_ExecTimeOrder ==
    [][\A a \in {last'.act} \cap ActionIds, sig \in {last'.sig}, dur \in {now' - now} :
          /\ \A cr \in CustomReturnsOf(a, now') :
                CallAction(a, sig, dur, cr) =>
                   /\ lastexectime'[a] = now
                   /\ (sig = Success /\ ~custom[a]) => time'[a] = now + periodArg(a)
          /\ CallOneTimeAction(a, sig, dur) => lastexectime'[a] = now
          /\ \A cr \in CustomReturnsOf(a, now') :
                CallStepAction(a, sig, dur, cr) =>
                   /\ lastexectime'[a] = now'
                   /\ (sig = Success /\ ~custom[a]) =>
                         time'[a] = now' + periodArg(a)]_vars

\* the work of the step action T, which has a period, took time and returned
\* Success: T is due one period after the work returned
C17_Witness ==
    /\ last.op = "StepAction.call" /\ last.act = "T" /\ last.sig = Success
    /\ last.dur > 0 /\ ~custom["T"]
    /\ lastexectime["T"] = now
    /\ time["T"] = now + periodArg("T")
    /\ time["T"] # (now - last.dur) + periodArg("T")

----------------------------------------------------------------------------
(* The time left: C16, under SpecQuery *)

\* C16: time_left() returns 0 when the time of the action is not after the
\* clock and the difference otherwise, never a negative number, and the
\* action that next() returns has the smallest time_left of all members of
\* the pool.
C16_TimeLeft ==
    [][/\ \A a \in {last'.act} \cap ActionIds :
             TimeLeft(a) =>
                /\ last'.exc = "none"
                /\ last'.ret = (IF time[a] <= now THEN 0 ELSE time[a] - now)
                /\ last'.ret >= 0
       /\ \A p \in Pools :
             (PoolNext(p) /\ last'.act # NoAction) =>
                \A m \in Members(p) :
                   /\ TimeLeftOf(m, time, now).exc = "none"
                   /\ TimeLeftOf(last'.act, time, now).val
                         <= TimeLeftOf(m, time, now).val]_vars

\* C16 for the actions whose time is set: time_left() returns 0 when the
\* time is not after the clock and the difference otherwise, never a negative
\* number, and the action that next() returns has the smallest time_left of
\* the members whose time is set.
C16_TimeLeftDefined ==
    [][/\ \A a \in {last'.act} \cap ActionIds :
             (TimeLeft(a) /\ time[a] # None) =>
                /\ last'.exc = "none"
                /\ last'.ret = (IF time[a] <= now THEN 0 ELSE time[a] - now)
                /\ last'.ret >= 0
       /\ \A p \in Pools :
             (PoolNext(p) /\ last'.act # NoAction) =>
                /\ TimeLeftOf(last'.act, time, now).exc = "none"
                /\ \A m \in Members(p) :
                      time[m] # None =>
                         TimeLeftOf(last'.act, time, now).val
                            <= TimeLeftOf(m, time, now).val]_vars

\* time_left() of A returned 0 when A was overdue, while O, in the same
\* pool, was still to come
C16_Witness ==
    /\ last.op = "time_left" /\ last.act = "A" /\ last.exc = "none"
    /\ time["A"] # None /\ time["A"] < now /\ last.ret = 0
    /\ {"A", "O"} \subseteq Members("P")
    /\ time["O"] > now

----------------------------------------------------------------------------
(* The order of removal and insertion: C19, under SpecRetry *)

\* C19: in a successful invocation of a one-time action in the pool P the
\* action and its cancel targets are removed before the followers are
\* inserted, so a follower that runs the same work as the action, or as a
\* cancel target that the invocation removed, is a member of P afterwards.
C19_RemovedBeforeInserted ==
    [][\A a \in {last'.act} \cap ActionIds, dur \in {now' - now} :
          (Succeeded(a, dur) /\ pool[a] # NoPool) =>
             LET p == pool[a]
                 removed == Targets(a, p) \ Range(actions'[p])
             IN \A x \in Range(followers'[a]) :
                   (\/ func(x) = func(a)
                    \/ \E m \in removed : func(m) = func(x))
                   => x \in Range(actions'[p]) /\ pool'[x] = p]_vars

----------------------------------------------------------------------------
(* The driver pattern: C20, under SpecDriver *)

\* C20: when only the action that next() returned is invoked, a one-time
\* action whose work returned Success is in the list of no pool afterwards,
\* so that next() cannot return it and it cannot be invoked again before it
\* is inserted again; when its work fails it stays in the list of its pool
\* with its back-reference.
C20_OneTimeOnce ==
    [][\A a \in {last'.act} \cap ActionIds, dur \in {now' - now} :
          /\ (Driven(a) /\ CallOneTimeAction(a, Success, dur)) =>
                \A p \in Pools : a \notin Range(actions'[p])
          /\ (Driven(a) /\ CallOneTimeAction(a, Failure, dur)) =>
                actions' = actions /\ pool' = pool]_vars

====
